---- MODULE Spec2Model ----
(***************************************************************************)
(* A model of src/src/solver.py: the Solver training driver.               *)
(*                                                                         *)
(* The Solver object's fields, the local variables of train and evaluate,  *)
(* and the position of the single control thread are the state.  The       *)
(* collaborators (model, criterion, optimizer, data loaders, metrics) are   *)
(* abstracted to what the driver observes of them:                         *)
(*   - the model's parameter state is a version number that every          *)
(*     optimizer.step() advances;                                           *)
(*   - criterion(model(X), Y) is a deterministic but otherwise arbitrary    *)
(*     function of the parameter state, the train/eval mode and the batch:  *)
(*     its value is drawn the first time it is needed and recorded in fwd;  *)
(*   - a data loader is a fixed finite sequence of batch sizes, batch i of  *)
(*     a loader being the same data on every pass;                          *)
(*   - losses are exact rationals <<numerator, denominator>>.               *)
(***************************************************************************)
EXTENDS Integers, Sequences, FiniteSets, TLC

\* ---------------------------------------------------------------- bounds
MaxEpochs  == 2     \* epochs is drawn from 0..MaxEpochs
MaxBatches == 2     \* a loader yields at most MaxBatches batches
MaxCalls   == 2     \* the client makes at most MaxCalls direct evaluate calls

BatchSizes == {2, 3}        \* X.size(0) of a batch
Losses     == {1, 2}        \* loss.item() of a batch
Dices      == {0, 1, 2}     \* a Dice score returned by Metrics.compute()

None == "None"

VARIABLES
    \* constructor arguments (lines 25-32)
    epochs, scheduler, train_loader, val_loader,
    \* Solver fields (lines 34-41) and the live model
    params, training, best_model, best_dice_score,
    train_loss_history, val_loss_history, train_loss_batch,
    train_metrics, val_metrics,
    \* collaborators
    fwd, sched_steps,
    \* control
    pc, caller, calls, results, epoch, error, binding, ret,
    \* locals of train / evaluate
    dataloader, batch_idx, avg_sum, loss_sum, loss_total, train_loss,
    all_loss, total,
    \* history: the (loss, batch size) pairs of the pass in progress or last
    \* finished, and the epochs that ran to their end
    seen, epoch_log

cfg    == <<epochs, scheduler, train_loader, val_loader>>
hist   == <<train_loss_history, val_loss_history, train_loss_batch>>
best   == <<best_model, best_dice_score>>
meters == <<train_metrics, val_metrics>>
locals == <<dataloader, batch_idx, avg_sum, loss_sum, loss_total, train_loss,
            all_loss, total>>
client == <<calls, results>>
vars   == <<cfg, params, training, best, hist, meters, fwd, sched_steps,
            pc, caller, client, epoch, error, binding, ret, locals, seen,
            epoch_log>>

\* ------------------------------------------------------------ arithmetic
RECURSIVE GCD(_, _)
GCD(a, b) == IF b = 0 THEN a ELSE GCD(b, a % b)

\* Python's true division a / b of two non-negative numbers, b > 0, as a
\* reduced fraction.
Div(a, b) == LET g == GCD(a, b) IN <<a \div g, b \div g>>

\* ------------------------------------------------------------------ data
Loaders == UNION {[1..n -> BatchSizes] : n \in 0..MaxBatches}

Batches(name) == IF name = "self.train_loader" THEN train_loader
                 ELSE IF name = "self.val_loader" THEN val_loader
                 ELSE <<>>

NoReturn == [op |-> "none", seq |-> <<>>, loss |-> <<0, 1>>]


\* ------------------------------------------------- calling Solver.evaluate
\* def evaluate(self, model, criterion, device, dataloader, metrics,
\*              decsription='Validation')
EvaluateParams == <<"self", "model", "criterion", "device", "dataloader",
                    "metrics", "decsription">>

\* The parameters that have a default value.
EvaluateDefaults == [decsription |-> "Validation"]

\* evaluate is declared with @staticmethod: reached through an instance it is
\* the plain function, and the instance is not passed.
EvaluateIsStatic == TRUE

\* The positional arguments the function receives for a call
\* receiver.evaluate(args).
Received(receiver, args) ==
    IF EvaluateIsStatic THEN args ELSE <<receiver>> \o args

\* Python's binding of positional arguments to parameters, left to right; a
\* parameter with neither an argument nor a default is "MISSING".
Bind(args) ==
    [p \in {EvaluateParams[i] : i \in 1..Len(EvaluateParams)} |->
        LET i == CHOOSE j \in 1..Len(EvaluateParams) : EvaluateParams[j] = p
        IN  IF i <= Len(args) THEN args[i]
            ELSE IF p \in DOMAIN EvaluateDefaults THEN EvaluateDefaults[p]
            ELSE "MISSING"]

\* A call raises TypeError when a required parameter is left without a value.
BindFails(b) == \E p \in DOMAIN b : b[p] = "MISSING"

\* self.evaluate(self.model, self.criterion, self.device, self.val_loader,
\*               self.val_metrics)                                  (line 54)
FitEvaluateArgs == <<"self.model", "self.criterion", "self.device",
                     "self.val_loader", "self.val_metrics">>

\* A client's direct call of the static function, every parameter given:
\* Solver.evaluate(solver, solver.model, solver.criterion, solver.device,
\*                 solver.val_loader, solver.val_metrics)
DirectEvaluateArgs == <<"solver">> \o FitEvaluateArgs

\* ------------------------------------------------------------------ Init
Init ==
    /\ epochs \in 0..MaxEpochs
    /\ scheduler \in {None, "scheduler"}
    /\ train_loader \in Loaders
    /\ val_loader \in Loaders
    /\ params = 0
    /\ training = TRUE
    /\ best_model = params
    /\ best_dice_score = 0
    /\ train_loss_history = <<>>
    /\ val_loss_history = <<>>
    /\ train_loss_batch = <<>>
    /\ train_metrics = 0
    /\ val_metrics = 0
    /\ fwd = <<>>
    /\ sched_steps = <<>>
    /\ pc = "idle"
    /\ caller = None
    /\ calls = 0
    /\ results = <<>>
    /\ epoch = 0
    /\ error = None
    /\ binding = <<>>
    /\ ret = NoReturn
    /\ dataloader = None
    /\ batch_idx = 0
    /\ avg_sum = 0
    /\ loss_sum = 0
    /\ loss_total = 0
    /\ train_loss = <<>>
    /\ all_loss = 0
    /\ total = 0
    /\ seen = <<>>
    /\ epoch_log = <<>>

\* ------------------------------------------------------------ exceptions
\* A faulty variant: fit catches the failure and goes on with its loop.
RaiseCaught(e) ==
    /\ error' = e
    /\ pc' = IF caller = "fit" THEN "fit_loop" ELSE "raised"

\* No try/except anywhere in the file: an exception leaves every frame and
\* ends the run.
Raise(e) ==
    /\ error' = e
    /\ pc' = "raised"

\* ------------------------------------------------------------- the model
\* logits = model(X); loss = criterion(logits, Y); l = loss.item(): the loss
\* is a function of the parameter state, the mode and the batch.
LossKey(d, i) == <<params, training, d, i>>

Forward(key, l) ==
    /\ key \in DOMAIN fwd => l = fwd[key]
    /\ fwd' = IF key \in DOMAIN fwd THEN fwd ELSE fwd @@ (key :> l)

\* loss.backward(); optimizer.step()                       (lines 93-94)
OptimizerStep(p) == p + 1

\* A faulty variant: the evaluation loop steps the optimizer as the training loop does.
EvalParamsStepped(p) == p + 1

\* The evaluation loop has no backward pass and no optimizer step
\* (lines 134-135).
EvalParams(p) == p

\* copy.deepcopy(self.model): a value of its own, not a reference.
DeepCopy(p) == p

\* Metrics.reset() / Metrics.update(logits, Y): the accumulator counts the
\* updates since the last reset.
MetricsReset == 0
MetricsUpdate(m) == m + 1


\* ------------------------------------------------------ loss bookkeeping
\* A faulty variant: the per-batch entry is the batch-size-weighted mean.
RunningAverageWeighted(avgSum, lossSum, lossTotal, idx) ==
    Div(lossSum, lossTotal)

\* train_loss.append(avg_sum / (batch_idx + 1))                 (line 101)
RunningAverage(avgSum, lossSum, lossTotal, idx) ==
    Div(avgSum, idx + 1)

\* A faulty variant: the pass returns the unweighted mean of the batch losses.
EpochLossUnweighted(weighted, count, avgSum, n) ==
    Div(avgSum, n)

\* return loss_sum / loss_total                                 (line 111)
TrainEpochLoss(weighted, count, avgSum, n) ==
    Div(weighted, count)

\* return all_loss / total                                      (line 151)
EvalEpochLoss(weighted, count, avgSum, n) ==
    Div(weighted, count)

\* --------------------------------------------------------------- train
\* Entry of train (lines 79-83), called from fit with self.train_loader and
\* self.train_metrics.
TrainEnter ==
    /\ training' = TRUE
    /\ dataloader' = "self.train_loader"
    /\ batch_idx' = 0
    /\ avg_sum' = 0
    /\ loss_sum' = 0
    /\ loss_total' = 0
    /\ train_loss' = <<>>
    /\ seen' = <<>>
    /\ UNCHANGED <<all_loss, total>>

\* One iteration of the training loop (lines 86-109).
TrainBatch ==
    /\ pc = "train_loop"
    /\ batch_idx < Len(Batches(dataloader))
    /\ LET batch_size == Batches(dataloader)[batch_idx + 1]
       IN  \E l \in Losses :
             /\ Forward(LossKey(dataloader, batch_idx + 1), l)
             /\ params' = OptimizerStep(params)
             /\ avg_sum' = avg_sum + l
             /\ loss_sum' = loss_sum + l * batch_size
             /\ loss_total' = loss_total + batch_size
             /\ train_loss' = Append(train_loss,
                    RunningAverage(avg_sum + l, loss_sum + l * batch_size,
                                   loss_total + batch_size, batch_idx))
             /\ seen' = Append(seen, [l |-> l, b |-> batch_size])
    /\ train_metrics' = MetricsUpdate(train_metrics)
    /\ batch_idx' = batch_idx + 1
    /\ UNCHANGED <<cfg, training, best, hist, val_metrics, sched_steps, pc,
                   caller, client, epoch, error, binding, ret, dataloader,
                   all_loss, total, epoch_log>>

\* The loader is exhausted: return train_loss, loss_sum / loss_total
\* (line 111), a ZeroDivisionError when no batch was seen.
TrainReturn ==
    /\ pc = "train_loop"
    /\ batch_idx = Len(Batches(dataloader))
    /\ IF loss_total = 0
       THEN /\ Raise("ZeroDivisionError")
            /\ UNCHANGED <<ret, locals>>
       ELSE /\ ret' = [op |-> "train", seq |-> train_loss,
                       loss |-> TrainEpochLoss(loss_sum, loss_total,
                                               avg_sum, batch_idx)]
            /\ pc' = "fit_train_ret"
            /\ dataloader' = None
            /\ batch_idx' = 0
            /\ avg_sum' = 0
            /\ loss_sum' = 0
            /\ loss_total' = 0
            /\ train_loss' = <<>>
            /\ UNCHANGED <<error, all_loss, total>>
    /\ UNCHANGED <<cfg, params, training, best, hist, meters, fwd,
                   sched_steps, caller, client, epoch, binding, seen,
                   epoch_log>>

\* ------------------------------------------------------------ evaluate
\* Entry of evaluate (lines 124-127) with its parameters bound as b.
EvaluateEnter(b) ==
    /\ binding' = b
    /\ training' = FALSE
    /\ dataloader' = b["dataloader"]
    /\ batch_idx' = 0
    /\ avg_sum' = 0
    /\ all_loss' = 0
    /\ total' = 0
    /\ seen' = <<>>
    /\ pc' = "eval_loop"
    /\ UNCHANGED <<loss_sum, loss_total, train_loss>>

\* One iteration of the evaluation loop (lines 130-149).
EvaluateBatch ==
    /\ pc = "eval_loop"
    /\ batch_idx < Len(Batches(dataloader))
    /\ LET batch_size == Batches(dataloader)[batch_idx + 1]
       IN  \E l \in Losses :
             /\ Forward(LossKey(dataloader, batch_idx + 1), l)
             /\ params' = EvalParams(params)
             /\ avg_sum' = avg_sum + l
             /\ all_loss' = all_loss + l * batch_size
             /\ total' = total + batch_size
             /\ seen' = Append(seen, [l |-> l, b |-> batch_size])
    /\ IF binding["metrics"] = "self.train_metrics"
       THEN /\ train_metrics' = MetricsUpdate(train_metrics)
            /\ UNCHANGED val_metrics
       ELSE /\ val_metrics' = MetricsUpdate(val_metrics)
            /\ UNCHANGED train_metrics
    /\ batch_idx' = batch_idx + 1
    /\ UNCHANGED <<cfg, training, best, hist, sched_steps, pc, caller, client,
                   epoch, error, binding, ret, dataloader, loss_sum,
                   loss_total, train_loss, epoch_log>>


\* -------------------------------------------------------- the rest of fit
\* if val_agg_metrics[DICE_SCORE] > self.best_dice_score: ...  (lines 62-64)
FitBest(d) ==
    IF d > best_dice_score
    THEN /\ best_dice_score' = d
         /\ best_model' = DeepCopy(params)
    ELSE UNCHANGED best

\* `not self.scheduler`                                          (line 59)
SchedulerGuard == scheduler = None

\* Lines 54-64 once evaluate has returned v: the append, compute() of both
\* accumulators (d is the validation Dice score), the scheduler statement and
\* the best-model update; then the next iteration of the loop.
FitAfterEvaluate(v) ==
    /\ val_loss_history' = Append(val_loss_history, v)
    /\ UNCHANGED <<train_loss_history, train_loss_batch>>
    /\ \E d \in Dices :
         IF SchedulerGuard /\ scheduler = None
         THEN \* self.scheduler.step(...) on None
              /\ Raise("AttributeError")
              /\ UNCHANGED <<best, sched_steps, epoch_log>>
         ELSE /\ sched_steps' = IF SchedulerGuard
                                THEN Append(sched_steps, v)
                                ELSE sched_steps
              /\ FitBest(d)
              /\ epoch_log' = Append(epoch_log, [dice |-> d, params |-> params])
              /\ pc' = "fit_loop"
              /\ UNCHANGED error

\* The loader is exhausted: return all_loss / total (line 151), a
\* ZeroDivisionError when no batch was seen.  A direct caller gets the value;
\* fit goes on with lines 54-64.
EvaluateReturn ==
    /\ pc = "eval_loop"
    /\ batch_idx = Len(Batches(dataloader))
    /\ IF total = 0
       THEN /\ Raise("ZeroDivisionError")
            /\ UNCHANGED <<ret, locals, hist, best, sched_steps, epoch_log,
                           caller, binding, results>>
       ELSE LET v == EvalEpochLoss(all_loss, total, avg_sum, batch_idx)
            IN  /\ ret' = [op |-> "evaluate", seq |-> <<>>, loss |-> v]
                /\ binding' = <<>>
                /\ dataloader' = None
                /\ batch_idx' = 0
                /\ avg_sum' = 0
                /\ all_loss' = 0
                /\ total' = 0
                /\ UNCHANGED <<loss_sum, loss_total, train_loss>>
                /\ IF caller = "fit"
                   THEN /\ FitAfterEvaluate(v)
                        /\ UNCHANGED <<caller, results>>
                   ELSE /\ pc' = "idle"
                        /\ caller' = None
                        /\ results' = Append(results, v)
                        /\ UNCHANGED <<error, hist, best, sched_steps,
                                       epoch_log>>
    /\ UNCHANGED <<cfg, params, training, meters, fwd, calls, epoch, seen>>

\* ------------------------------------------------------------------- fit
\* The client calls solver.fit().
CallFit ==
    /\ pc = "idle"
    /\ caller' = "fit"
    /\ pc' = "fit_loop"
    /\ epoch' = 0
    /\ ret' = NoReturn
    /\ UNCHANGED <<cfg, params, training, best, hist, meters, fwd,
                   sched_steps, client, error, binding, locals, seen,
                   epoch_log>>

\* for epoch in range(1, self.epochs + 1): the next epoch begins; both
\* accumulators are reset and train is entered (lines 44-50).
FitEpoch ==
    /\ pc = "fit_loop"
    /\ epoch < epochs
    /\ epoch' = epoch + 1
    /\ train_metrics' = MetricsReset
    /\ val_metrics' = MetricsReset
    /\ TrainEnter
    /\ pc' = "train_loop"
    /\ UNCHANGED <<cfg, params, best, hist, fwd, sched_steps, caller, client,
                   error, binding, ret, epoch_log>>

\* The range is exhausted: fit returns.
FitReturn ==
    /\ pc = "fit_loop"
    /\ epoch = epochs
    /\ pc' = "idle"
    /\ caller' = None
    /\ ret' = [op |-> "fit", seq |-> <<>>, loss |-> <<0, 1>>]
    /\ UNCHANGED <<cfg, params, training, best, hist, meters, fwd,
                   sched_steps, client, epoch, error, binding, locals, seen,
                   epoch_log>>

\* self.train_loss_batch.extend(t1); self.train_loss_history.append(t2)
\* (lines 51-52)
FitAppendTrain ==
    /\ pc = "fit_train_ret"
    /\ train_loss_batch' = train_loss_batch \o ret.seq
    /\ train_loss_history' = Append(train_loss_history, ret.loss)
    /\ pc' = "fit_eval"
    /\ UNCHANGED <<cfg, params, training, best, val_loss_history, meters, fwd,
                   sched_steps, caller, client, epoch, error, binding, ret,
                   locals, seen, epoch_log>>

\* self.evaluate(self.model, ..., self.val_metrics) (line 54): the arguments
\* are bound to evaluate's parameters; TypeError when a required one is left
\* without a value.
FitCallEvaluate ==
    /\ pc = "fit_eval"
    /\ LET b == Bind(Received("self", FitEvaluateArgs))
       IN  IF BindFails(b)
           THEN /\ Raise("TypeError")
                /\ binding' = b
                /\ UNCHANGED <<training, locals, seen>>
           ELSE /\ EvaluateEnter(b)
                /\ UNCHANGED error
    /\ UNCHANGED <<cfg, params, best, hist, meters, fwd, sched_steps, caller,
                   client, epoch, ret, epoch_log>>

\* The client calls the static function itself, every parameter given.
CallEvaluate ==
    /\ pc = "idle"
    /\ calls < MaxCalls
    /\ calls' = calls + 1
    /\ caller' = "client"
    /\ ret' = NoReturn
    /\ EvaluateEnter(Bind(Received("Solver", DirectEvaluateArgs)))
    /\ UNCHANGED <<cfg, params, best, hist, meters, fwd, sched_steps,
                   results, epoch, error, epoch_log>>

Next ==
    \/ CallFit
    \/ FitEpoch
    \/ TrainBatch
    \/ TrainReturn
    \/ FitAppendTrain
    \/ FitCallEvaluate
    \/ FitReturn
    \/ CallEvaluate
    \/ EvaluateBatch
    \/ EvaluateReturn

Spec == Init /\ [][Next]_vars


\* ================================================================ claims
RECURSIVE SumLB(_)
SumLB(s) == IF s = <<>> THEN 0 ELSE Head(s).l * Head(s).b + SumLB(Tail(s))

RECURSIVE SumB(_)
SumB(s) == IF s = <<>> THEN 0 ELSE Head(s).b + SumB(Tail(s))

RECURSIVE SumL(_)
SumL(s) == IF s = <<>> THEN 0 ELSE Head(s).l + SumL(Tail(s))

\* Equality of two fractions, by cross multiplication.
FracEq(f, g) == f[1] * g[2] = g[1] * f[2]

\* fit has stopped: it returned, or an exception left it.
FitStopped == ret.op = "fit" \/ (pc = "raised" /\ caller = "fit")

\* Both loaders yield at least one batch, so no collaborator fails.
OrdinaryRun == train_loader # <<>> /\ val_loader # <<>>

DiceOf(log) == {log[k].dice : k \in DOMAIN log}

MaxOf(S) == CHOOSE x \in S : \A y \in S : y <= x

C4_EpochLossIsWeightedMean ==
    ret.op \in {"train", "evaluate"} =>
        /\ FracEq(ret.loss, <<SumLB(seen), SumB(seen)>>)
        /\ Len(seen) = 1 => ret.loss = <<seen[1].l, 1>>
        /\ seen = <<[l |-> 1, b |-> 2], [l |-> 2, b |-> 3]>> =>
               ret.loss = <<8, 5>>

\* An evaluation pass over batches of sizes 2, 3 with losses 1, 2 has returned.
C4_Witness ==
    /\ ret.op = "evaluate"
    /\ seen = <<[l |-> 1, b |-> 2], [l |-> 2, b |-> 3]>>

\* C5: no step of the evaluation pass changes the model's parameters, and the
\* losses that consecutive evaluate calls on the same model and the same
\* batches return are all equal.
C5_EvaluateLeavesParams ==
    /\ [](\A i, j \in DOMAIN results : results[i] = results[j])
    /\ [][pc = "eval_loop" => params' = params]_vars

\* evaluate has run twice in a row over a loader of two batches.
C5_Witness == Len(results) = 2 /\ Len(val_loader) = 2

\* C6: with a scheduler configured, when fit is asked for N epochs on loaders
\* that yield batches, it stops having stepped the scheduler once per epoch
\* with that epoch's entry of val_loss_history.
C6_SchedulerSteppedEachEpoch ==
    FitStopped /\ OrdinaryRun /\ scheduler # None =>
        /\ Len(sched_steps) = epochs
        /\ Len(val_loss_history) = epochs
        /\ \A k \in DOMAIN sched_steps : sched_steps[k] = val_loss_history[k]

\* C7: the sequence a training pass returns has one entry per batch of the
\* training loader, the i-th being the unweighted mean of the first i losses.
C7_RunningAverages ==
    ret.op = "train" =>
        /\ Len(ret.seq) = Len(train_loader)
        /\ Len(ret.seq) = Len(seen)
        /\ \A i \in DOMAIN ret.seq :
               FracEq(ret.seq[i], <<SumL(SubSeq(seen, 1, i)), i>>)

\* A training pass over two batches of different sizes and losses 1, 2 has
\* returned.
C7_Witness ==
    /\ ret.op = "train"
    /\ Len(ret.seq) = 2
    /\ seen[1].l = 1 /\ seen[2].l = 2 /\ seen[1].b # seen[2].b
    /\ ret.seq[2] = <<3, 2>>

\* C8: once an exception has been raised nothing moves any more: control
\* stays where the exception left it, no further epoch starts, and the
\* histories, the best snapshot and the model receive no further update.
C8_FailureStopsFit ==
    [][error # None =>
          /\ pc' = pc
          /\ epoch' = epoch
          /\ UNCHANGED <<hist, best, meters, params, seen>>]_vars

\* fit failed in its first epoch (an empty training loader: division by
\* zero) with a second epoch still to run.
C8_Witness ==
    /\ pc = "raised"
    /\ caller = "fit"
    /\ error = "ZeroDivisionError"
    /\ epoch = 1
    /\ epochs = 2

\* C9: when fit calls evaluate, evaluate's parameters receive the arguments
\* of their role: model the driver's model, dataloader the validation loader,
\* metrics the validation accumulator.
C9_EvaluateArgumentsBound ==
    caller = "fit" /\ binding # <<>> =>
        /\ binding["model"] = "self.model"
        /\ binding["criterion"] = "self.criterion"
        /\ binding["device"] = "self.device"
        /\ binding["dataloader"] = "self.val_loader"
        /\ binding["metrics"] = "self.val_metrics"

\* The scheduler statement of line 60 was executed.
StepAttempted == error = "AttributeError" \/ sched_steps # <<>>

\* C10: when fit has run an epoch on loaders that yield batches, the scheduler
\* step was attempted exactly when no scheduler is configured.
C10_StepAttemptedIffNoScheduler ==
    FitStopped /\ OrdinaryRun /\ epochs >= 1 =>
        (StepAttempted <=> scheduler = None)

====
